---- MODULE Spec2Model ----
(***************************************************************************)
(* Model of Searchgithub-importsnyk.go: the concurrent import pipeline.    *)
(* main opens the store, checks credentials, loads the inventory, launches *)
(* one worker goroutine per repository and one result-writer goroutine,    *)
(* and shuts down through wg.Wait / close(resultsChan) / wgWriter.Wait.    *)
(*                                                                         *)
(* Time is discrete: TicksPerInterval ticks make one replenishment         *)
(* interval (one second) of the limiter.  Computation steps take no time;  *)
(* the limiter sleep and the HTTP call may take any number of ticks, and a *)
(* goroutine whose limiter reservation is due resumes before the clock     *)
(* advances further.                                                       *)
(***************************************************************************)
EXTENDS Integers, Sequences, FiniteSets, TLC

\* ---------------------------------------------------------------- bounds
MaxRepos == 2          \* inventory rows of the general specification
MaxFiles == 2          \* scan_results rows per (owner, name)
MaxTime == 2           \* limiter intervals on the clock of the gate specification
GateFiles == 3         \* scan_results rows per repository of the gate specification
TicksPerInterval == 2  \* clock resolution: ticks per limiter interval
LiveRepos == 2         \* repositories of the full-handoff specification
LiveFiles == 2         \* candidate files per repository of the full-handoff specification
FullCap == 1           \* handoff capacity of the full-handoff specification

\* ------------------------------------------------------ program constants
snykImportLimit == 5       \* limiter burst
resultsChanCap == 100      \* make(chan ImportResult, 100)
clientTimeoutSeconds == 30 \* http.Client{Timeout: 30 * time.Second}
StatusOK == 200
StatusCreated == 201
StatusServerError == 500   \* a non-success answer of the API

VARIABLES
    repoTable,    \* rows of table repositories with active = true
    scanTable,    \* rows of table scan_results per (owner, name)
    apiAnswers,   \* per file path, the answers the downstream API may give in this run
    storeFaults,  \* whether scan_results queries and upserts may fail in this run
    apiLatency,   \* the least number of ticks an API call takes in this run
    clockEnd,     \* the last clock tick modelled in this run
    tableExisted, \* whether table snyk_imports existed before the run
    cancelPossible, \* whether the process may be asked to shut down in this run
    rerunPlanned, \* whether the program is started a second time after its first run
    chanCap,      \* the capacity of resultsChan in this run
    tableExists,  \* whether table snyk_imports exists
    store,        \* rows of table snyk_imports
    nextId,       \* the SERIAL sequence of snyk_imports.id
    mainPC,       \* position of main
    abortedAt,    \* the startup step at which main returned early, or "none"
    repos,        \* main's local slice repos
    launched,     \* number of iterations of the launch loop done
    wg,           \* sync.WaitGroup wg counter
    wgWriter,     \* sync.WaitGroup wgWriter counter
    resultsChan,  \* buffered channel contents
    chanClosed,   \* whether close(resultsChan) has run
    limTokens,    \* limiter.tokens, in 1/TicksPerInterval token units
    limLast,      \* limiter.last
    now,          \* the clock
    cancelAsked,  \* whether the process has been asked to shut down
    wpc,          \* position of each worker goroutine
    wrows,        \* each worker's result set (rows)
    widx,         \* each worker's number of rows consumed by rows.Next
    wact,         \* each worker's reservation time (timeToAct)
    wstart,       \* each worker's start time of its current importToSnyk call
    wrPC,         \* position of the writer goroutine
    wrCur,        \* the writer's loop variable result
    subm,         \* history: per worker, the outcomes it constructed
    pushed,       \* history: per worker, number of channel sends
    attempts,     \* history: per worker, results of writeImportResult calls
    callsAt,      \* history: number of importToSnyk calls started per tick
    callsAfterCancel, \* history: calls started after the shutdown request
    received,     \* history: per worker, the outcomes the writer took off the channel
    started,      \* history: per worker, number of importToSnyk calls started
    acquired,     \* history: per worker, number of tokens taken by limiter.Wait
    runsLeft,     \* number of program runs still to be started
    storeAfterFirst, \* history: the rows of snyk_imports when the first run ended
    nConflicts    \* history: number of upserts that hit an existing key

\* the environment of one run: never changed by the program
envVars == <<repoTable, scanTable, apiAnswers, storeFaults, apiLatency,
             clockEnd, tableExisted, cancelPossible, rerunPlanned,
             chanCap>>
\* main's own variables
mainVars == <<mainPC, abortedAt, repos, launched>>
\* what the writer goroutine alone changes
writerVars == <<store, nextId, wrCur, attempts, nConflicts>>
\* the limiter
limVars == <<limTokens, limLast>>
\* the workers' locals other than their position
workerVars == <<wrows, widx, wact, wstart>>
\* the sequence of program runs
runVars == <<runsLeft, storeAfterFirst>>

vars == <<envVars, mainVars, writerVars, limVars, workerVars, tableExists,
          wg, wgWriter, resultsChan, chanClosed, now, wpc, wrPC, subm,
          pushed, callsAt, cancelAsked, callsAfterCancel, runVars,
          received, started, acquired>>

\* ------------------------------------------------------------ data model
Keys == {<<"acme", "api">>, <<"acme", "web">>}

\* type Repository; id is the primary key of the row, here its position
Repository(i, k) == [ID |-> i, Owner |-> k[1], Name |-> k[2], Branch |-> "main"]

SeqsUpTo(S, n) == UNION {[1..m -> S] : m \in 0..n}

\* inventories of up to MaxRepos rows; names are arbitrary, so the first row
\* is acme/api; two rows may carry the same (owner, name)
Inventories ==
    {[i \in 1..Len(ks) |-> Repository(i, ks[i])] :
        ks \in {q \in SeqsUpTo(Keys, MaxRepos) : q = <<>> \/ q[1] = <<"acme", "api">>}}

\* a row of scan_results: a (file_path, file_type) pair that rows.Scan can
\* decode (ok), or a row it cannot (a NULL column)
Rows == {[path |-> "go.mod", ok |-> TRUE], [path |-> "NULL", ok |-> FALSE]}

ScanTables == [Keys -> SeqsUpTo(Rows, MaxFiles)]

\* the file paths of the rows that decode
Paths == {"go.mod", "package.json"}

\* the (owner, name) pairs of an inventory
KeysOf(inv) == {<<inv[i].Owner, inv[i].Name>> : i \in 1..Len(inv)}

RepoKey(repo) == <<repo.Owner, repo.Name>>

NoResult == [RepoID |-> 0, Owner |-> "", Name |-> "", FilePath |-> "",
             Success |-> FALSE, Error |-> "", ImportedAt |-> 0]

\* answers of the downstream API / HTTP client
Responses == {[neterr |-> FALSE, status |-> StatusCreated],
              [neterr |-> FALSE, status |-> StatusServerError],
              [neterr |-> TRUE, status |-> 0]}

Min(a, b) == IF a < b THEN a ELSE b
Max(a, b) == IF a > b THEN a ELSE b

Workers == 1..Len(repoTable)

\* ---------------------------------------------------------- importToSnyk
\* the error importToSnyk returns: "" stands for nil
ImportToSnykErr(resp) ==
    IF resp.neterr THEN "Post https://snyk.io/api/v1/import/git: timeout"
    ELSE IF resp.status # StatusOK /\ resp.status # StatusCreated
         THEN "Snyk API returned status: " \o ToString(resp.status)
         ELSE ""

\* the ImportResult the worker builds after the call
MakeResult(repo, filePath, err, t) ==
    [RepoID |-> repo.ID, Owner |-> repo.Owner, Name |-> repo.Name,
     FilePath |-> filePath, Success |-> (err = ""), Error |-> err,
     ImportedAt |-> t]

\* ------------------------------------------------------ writeImportResult
ResultKey(o) == <<o.Owner, o.Name, o.FilePath>>
RowKey(row) == <<row.repo_owner, row.repo_name, row.file_path>>

Conflicts(rows, o) == {row \in rows : RowKey(row) = ResultKey(o)}

\* mutant: the row of the key is deleted and inserted anew
UpsertReplacesRow(rows, o, id) ==
    {row \in rows : RowKey(row) # ResultKey(o)}
        \cup {[id |-> id, repo_id |-> o.RepoID, repo_owner |-> o.Owner,
                repo_name |-> o.Name, file_path |-> o.FilePath,
                success |-> o.Success, error_message |-> o.Error,
                imported_at |-> o.ImportedAt]}

\* mutant: the update also sets repo_id
UpsertOverwritesRepoID(rows, o, id) ==
    IF \E row \in rows : RowKey(row) = ResultKey(o)
    THEN {IF RowKey(row) = ResultKey(o)
          THEN [row EXCEPT !.repo_id = o.RepoID,
                           !.success = o.Success,
                           !.error_message = o.Error,
                           !.imported_at = o.ImportedAt]
          ELSE row : row \in rows}
    ELSE rows \cup {[id |-> id, repo_id |-> o.RepoID, repo_owner |-> o.Owner,
                     repo_name |-> o.Name, file_path |-> o.FilePath,
                     success |-> o.Success, error_message |-> o.Error,
                     imported_at |-> o.ImportedAt]}

\* mutant: a plain INSERT without the ON CONFLICT clause or the UNIQUE constraint
UpsertAlwaysInserts(rows, o, id) ==
    rows \cup {[id |-> id, repo_id |-> o.RepoID, repo_owner |-> o.Owner,
                repo_name |-> o.Name, file_path |-> o.FilePath,
                success |-> o.Success, error_message |-> o.Error,
                imported_at |-> o.ImportedAt]}

\* INSERT ... ON CONFLICT (repo_owner, repo_name, file_path) DO UPDATE SET ...
Upsert(rows, o, id) ==
    IF Conflicts(rows, o) # {}
    THEN {IF RowKey(row) = ResultKey(o)
          THEN [row EXCEPT !.success = o.Success,
                           !.error_message = o.Error,
                           !.imported_at = o.ImportedAt]
          ELSE row : row \in rows}
    ELSE rows \cup {[id |-> id, repo_id |-> o.RepoID, repo_owner |-> o.Owner,
                     repo_name |-> o.Name, file_path |-> o.FilePath,
                     success |-> o.Success, error_message |-> o.Error,
                     imported_at |-> o.ImportedAt]}

\* ------------------------------------------------------------ rate.Limiter
LimiterBurst == snykImportLimit * TicksPerInterval

\* Limiter.advance: tokens available at time t
LimiterAdvance(tokens, last, t) == Min(LimiterBurst, tokens + (t - last))

\* mutant: a reservation that takes no token
LimiterTakesNothing(tokens, last, t) == LimiterAdvance(tokens, last, t)

\* Limiter.reserveN(t, 1): tokens left after taking one
LimiterTake(tokens, last, t) == LimiterAdvance(tokens, last, t) - TicksPerInterval

\* the reservation's timeToAct
TimeToAct(tokens, last, t) == t + Max(0, 0 - LimiterTake(tokens, last, t))

\* ------------------------------------------------------------------- Init
InitCommon ==
    /\ tableExists = tableExisted
    /\ store = {}
    /\ nextId = 1
    /\ mainPC = "initDB"
    /\ abortedAt = "none"
    /\ repos = <<>>
    /\ launched = 0
    /\ wg = 0
    /\ wgWriter = 0
    /\ resultsChan = <<>>
    /\ chanClosed = FALSE
    /\ limTokens = LimiterBurst
    /\ limLast = 0
    /\ now = 0
    /\ wpc = [r \in Workers |-> "idle"]
    /\ wrows = [r \in Workers |-> <<>>]
    /\ widx = [r \in Workers |-> 0]
    /\ wact = [r \in Workers |-> 0]
    /\ wstart = [r \in Workers |-> 0]
    /\ wrPC = "idle"
    /\ wrCur = NoResult
    /\ subm = [r \in Workers |-> <<>>]
    /\ pushed = [r \in Workers |-> 0]
    /\ attempts = [r \in Workers |-> <<>>]
    /\ callsAt = [t \in 0..clockEnd |-> 0]
    /\ nConflicts = 0
    /\ cancelAsked = FALSE
    /\ callsAfterCancel = 0
    /\ received = [r \in Workers |-> <<>>]
    /\ started = [r \in Workers |-> 0]
    /\ acquired = [r \in Workers |-> 0]
    /\ runsLeft = (IF rerunPlanned THEN 1 ELSE 0)
    /\ storeAfterFirst = {}

\* the general specification: a fresh database, any small inventory and scan
\* results, every kind of API answer, store faults possible
Init ==
    /\ tableExisted = FALSE
    /\ repoTable \in Inventories
    /\ scanTable \in {t \in ScanTables :
                        \A k \in Keys \ KeysOf(repoTable) : t[k] = <<>>}
    /\ apiAnswers = [p \in Paths |-> Responses]
    /\ storeFaults = TRUE
    /\ apiLatency = 0
    /\ clockEnd = 1
    /\ cancelPossible = FALSE
    /\ rerunPlanned = FALSE
    /\ chanCap = resultsChanCap
    /\ InitCommon

\* ------------------------------------------------------------------- main
\* mutant: a startup error is printed and main goes on
AfterStartupErrorGoesOn == "launch"

\* where main goes when initDB, the credential check or getRepositoriesFromDB
\* failed: it prints the error and returns
AfterStartupError == "aborted"

\* initDB: sql.Open, Ping, CREATE TABLE IF NOT EXISTS; main returns on error
MainInitDB ==
    /\ mainPC = "initDB"
    /\ \E reachable \in BOOLEAN, execOK \in BOOLEAN :
         IF ~reachable
         THEN /\ mainPC' = AfterStartupError
              /\ abortedAt' = "initDB"
              /\ UNCHANGED tableExists
         ELSE /\ tableExists' = (tableExists \/ execOK)
              /\ mainPC' = IF execOK THEN "creds" ELSE AfterStartupError
              /\ abortedAt' = IF execOK THEN "none" ELSE "initDB"
    /\ UNCHANGED <<envVars, received, started, acquired,
                   runVars, cancelAsked, callsAfterCancel,
                   repos, launched, writerVars, limVars, workerVars,
                   wg, wgWriter, resultsChan, chanClosed, now, wpc, wrPC,
                   subm, pushed, callsAt>>

\* the credential check: both tokens must be non-empty
CredentialsPresent(githubToken, snykToken) == githubToken /\ snykToken

\* os.Getenv of both tokens; main returns when one is empty
MainCreds ==
    /\ mainPC = "creds"
    /\ \E githubToken \in BOOLEAN, snykToken \in BOOLEAN :
         IF CredentialsPresent(githubToken, snykToken)
         THEN /\ mainPC' = "getRepos"
              /\ UNCHANGED abortedAt
         ELSE /\ mainPC' = AfterStartupError
              /\ abortedAt' = "creds"
    /\ UNCHANGED <<envVars, received, started, acquired,
                   runVars, cancelAsked, callsAfterCancel,
                   repos, launched, writerVars, limVars, workerVars,
                   tableExists, wg, wgWriter, resultsChan, chanClosed, now,
                   wpc, wrPC, subm, pushed, callsAt>>

\* getRepositoriesFromDB (main returns on error), then make(chan) and
\* rate.NewLimiter
MainGetRepos ==
    /\ mainPC = "getRepos"
    /\ \E ok \in BOOLEAN :
         IF ok
         THEN /\ repos' = repoTable
              /\ mainPC' = "launch"
              /\ UNCHANGED abortedAt
         ELSE /\ mainPC' = AfterStartupError
              /\ abortedAt' = "getRepos"
              /\ UNCHANGED repos
    /\ UNCHANGED <<envVars, received, started, acquired,
                   runVars, cancelAsked, callsAfterCancel,
                   launched, writerVars, limVars, workerVars,
                   tableExists, wg, wgWriter, resultsChan, chanClosed, now,
                   wpc, wrPC, subm, pushed, callsAt>>

\* one iteration of "for _, repo := range repos": wg.Add(1); go func(repo)
\* after the last iteration: wgWriter.Add(1); go func() (the result writer)
MainLaunch ==
    /\ mainPC = "launch"
    /\ IF launched < Len(repos)
       THEN /\ launched' = launched + 1
            /\ wg' = wg + 1
            /\ wpc' = [wpc EXCEPT ![launched + 1] = "query"]
            /\ UNCHANGED <<mainPC, wgWriter, wrPC>>
       ELSE /\ wgWriter' = wgWriter + 1
            /\ wrPC' = "recv"
            /\ mainPC' = "wgWait"
            /\ UNCHANGED <<launched, wg, wpc>>
    /\ UNCHANGED <<envVars, received, started, acquired,
                   runVars, cancelAsked, callsAfterCancel,
                   abortedAt, repos, writerVars, limVars, workerVars,
                   tableExists, resultsChan, chanClosed, now, subm, pushed,
                   callsAt>>

\* mutant: wg.Wait never returns
WgWaitBlocksForever == FALSE

\* mutant: wg.Wait returns while workers are running
WgWaitReturnsEarly == TRUE

\* wg.Wait() returns when the counter is zero
WgWaitReturns == wg = 0

\* wg.Wait(); close(resultsChan)
MainClose ==
    /\ mainPC = "wgWait"
    /\ WgWaitReturns
    /\ chanClosed' = TRUE
    /\ mainPC' = "writerWait"
    /\ UNCHANGED <<envVars, received, started, acquired,
                   runVars, cancelAsked, callsAfterCancel,
                   abortedAt, repos, launched, writerVars, limVars,
                   workerVars, tableExists, wg, wgWriter, resultsChan, now,
                   wpc, wrPC, subm, pushed, callsAt>>

\* mutant: main does not wait for the writer
WgWriterWaitSkipped == TRUE

\* wgWriter.Wait() returns when the counter is zero
WgWriterWaitReturns == wgWriter = 0

\* wgWriter.Wait(); return from main (defer db.Close).  When a second run is
\* planned the program is then started again: a new process with the same
\* environment, the same database and a clock that has not gone back.
MainWriterWait ==
    /\ mainPC = "writerWait"
    /\ WgWriterWaitReturns
    /\ IF runsLeft = 0
       THEN /\ mainPC' = "done"
            /\ UNCHANGED <<runVars, repos, launched, wrCur, attempts,
                           nConflicts, limVars, workerVars, wg, wgWriter,
                           resultsChan, chanClosed, now, wpc, wrPC, subm,
                           pushed, callsAt, received, started, acquired>>
       ELSE /\ runsLeft' = runsLeft - 1
            /\ storeAfterFirst' = store
            /\ mainPC' = "initDB"
            /\ repos' = <<>>
            /\ launched' = 0
            /\ wrCur' = NoResult
            /\ attempts' = [r \in Workers |-> <<>>]
            /\ nConflicts' = 0
            /\ now' \in {now, Min(now + 1, clockEnd)}
            /\ limTokens' = LimiterBurst
            /\ limLast' = now'
            /\ wrows' = [r \in Workers |-> <<>>]
            /\ widx' = [r \in Workers |-> 0]
            /\ wact' = [r \in Workers |-> 0]
            /\ wstart' = [r \in Workers |-> 0]
            /\ wg' = 0
            /\ wgWriter' = 0
            /\ resultsChan' = <<>>
            /\ chanClosed' = FALSE
            /\ wpc' = [r \in Workers |-> "idle"]
            /\ wrPC' = "idle"
            /\ subm' = [r \in Workers |-> <<>>]
            /\ pushed' = [r \in Workers |-> 0]
            /\ callsAt' = [t \in 0..clockEnd |-> 0]
            /\ received' = [r \in Workers |-> <<>>]
            /\ started' = [r \in Workers |-> 0]
            /\ acquired' = [r \in Workers |-> 0]
    /\ UNCHANGED <<envVars, cancelAsked, callsAfterCancel, abortedAt, store,
                   nextId, tableExists>>

\* ----------------------------------------------------------------- worker
\* mutant: the error is logged and the return is missing
AfterQueryErrorFallsThrough == "next"

\* where the worker goes when the scan_results query returned an error: it
\* logs and returns
AfterQueryError == "queryFailed"

\* db.Query on scan_results; on error the worker returns (defer wg.Done)
WorkerQuery(r) ==
    /\ wpc[r] = "query"
    /\ \E ok \in (IF storeFaults THEN BOOLEAN ELSE {TRUE}) :
         IF ok
         THEN /\ wrows' = [wrows EXCEPT ![r] = scanTable[RepoKey(repos[r])]]
              /\ wpc' = [wpc EXCEPT ![r] = "next"]
              /\ UNCHANGED wg
         ELSE /\ wpc' = [wpc EXCEPT ![r] = AfterQueryError]
              /\ wg' = wg - 1
              /\ UNCHANGED wrows
    /\ UNCHANGED <<envVars, received, started, acquired,
                   runVars, cancelAsked, callsAfterCancel,
                   mainVars, writerVars, limVars, widx, wact, wstart,
                   tableExists, wgWriter, resultsChan, chanClosed, now, wrPC,
                   subm, pushed, callsAt>>

\* the context handed to limiter.Wait is context.Background(): its Done
\* channel never fires, whatever the process has been asked
CtxDone(asked) == FALSE

\* rows.Next(); rows.Scan; limiter.Wait: reserve a token
\*   no more rows: the worker returns (defer wg.Done)
\*   Scan fails:   continue
\*   Wait fails:   continue (the context is done)
\*   otherwise:    the reservation is made and the worker sleeps until it is
\*                 due; Wait for one token of a burst of five returns no error
\* By the time of the Wait call the process may have been asked to shut down.
WorkerNext(r) ==
    /\ wpc[r] = "next"
    /\ IF widx[r] >= Len(wrows[r])
       THEN /\ wpc' = [wpc EXCEPT ![r] = "done"]
            /\ wg' = wg - 1
            /\ UNCHANGED <<widx, wact, limVars, cancelAsked, acquired>>
       ELSE /\ widx' = [widx EXCEPT ![r] = widx[r] + 1]
            /\ UNCHANGED wg
            /\ IF ~wrows[r][widx[r] + 1].ok
               THEN UNCHANGED <<wpc, wact, limVars, cancelAsked, acquired>>
               ELSE /\ \E asked \in (IF cancelPossible THEN BOOLEAN ELSE {FALSE}) :
                         cancelAsked' = (cancelAsked \/ asked)
                    /\ IF CtxDone(cancelAsked')
                       THEN UNCHANGED <<wpc, wact, limVars, acquired>>
                       ELSE /\ wact' = [wact EXCEPT ![r] =
                                           TimeToAct(limTokens, limLast, now)]
                            /\ limTokens' = LimiterTake(limTokens, limLast, now)
                            /\ limLast' = now
                            /\ acquired' = [acquired EXCEPT ![r] = acquired[r] + 1]
                            /\ wpc' = [wpc EXCEPT ![r] = "wait"]
    /\ UNCHANGED <<envVars, received, started,
                   runVars, callsAfterCancel,
                   mainVars, writerVars, wrows, wstart, tableExists,
                   wgWriter, resultsChan, chanClosed, now, wrPC, subm, pushed,
                   callsAt>>

\* mutant: the call is started in a goroutine of its own and the loop goes on
AfterStartImportAsync == "next"

\* where the worker is after it called importToSnyk: inside the call, until
\* it returns
AfterStartImport == "import"

\* limiter.Wait returns nil once the reservation is due; importToSnyk starts
WorkerStartImport(r) ==
    /\ wpc[r] = "wait"
    /\ now >= wact[r]
    /\ wpc' = [wpc EXCEPT ![r] = AfterStartImport]
    /\ started' = [started EXCEPT ![r] = started[r] + 1]
    /\ wstart' = [wstart EXCEPT ![r] = now]
    /\ callsAt' = [callsAt EXCEPT ![now] = callsAt[now] + 1]
    /\ callsAfterCancel' = callsAfterCancel + (IF cancelAsked THEN 1 ELSE 0)
    /\ UNCHANGED <<envVars, received, acquired,
                   runVars, cancelAsked,
                   mainVars, writerVars, limVars, wrows, widx, wact,
                   tableExists, wg, wgWriter, resultsChan, chanClosed, now,
                   wrPC, subm, pushed>>

\* mutant: the result of a failed call is logged and not sent
SendsResultOnSuccessOnly(err) == err = ""

\* whether the worker sends the ImportResult built after a call that returned err
SendsResult(err) == TRUE

\* mutant: a failed call ends the worker's file loop
AfterSendStopsOnError(err) == IF err = "" THEN "next" ELSE "done"

\* mutant: a failed call is tried again
AfterSendRetriesOnError(err) == IF err = "" THEN "next" ELSE "wait"

\* where the worker goes after the send: the next iteration of its file loop
AfterSend(err) == "next"

\* mutant: the newest element is taken first
DequeueNewest(ch) == <<ch[Len(ch)], SubSeq(ch, 1, Len(ch) - 1)>>

\* "for result := range resultsChan" takes the oldest element
Dequeue(ch) == <<Head(ch), Tail(ch)>>

\* importToSnyk returns, the ImportResult is built (time.Now()) and sent:
\* resultsChan <- result.  The buffered send completes at once while the
\* buffer has room and panics on a closed channel.
WorkerImportReturns(r) ==
    /\ wpc[r] = "import"
    /\ now >= wstart[r] + apiLatency
    /\ Len(resultsChan) < chanCap
    /\ \E resp \in apiAnswers[wrows[r][widx[r]].path] :
         LET err == ImportToSnykErr(resp)
             result == MakeResult(repos[r], wrows[r][widx[r]].path, err, now)
         IN /\ subm' = [subm EXCEPT ![r] = Append(subm[r], result)]
            /\ IF ~SendsResult(err)
               THEN /\ wpc' = [wpc EXCEPT ![r] = AfterSend(err)]
                    /\ UNCHANGED <<resultsChan, pushed>>
               ELSE IF chanClosed
               THEN /\ wpc' = [wpc EXCEPT ![r] = "panic"]
                    /\ UNCHANGED <<resultsChan, pushed>>
               ELSE /\ resultsChan' = Append(resultsChan, result)
                    /\ pushed' = [pushed EXCEPT ![r] = pushed[r] + 1]
                    /\ wpc' = [wpc EXCEPT ![r] = AfterSend(err)]
    /\ UNCHANGED <<envVars, received, started, acquired,
                   runVars, cancelAsked, callsAfterCancel,
                   mainVars, writerVars, limVars, workerVars,
                   tableExists, wg, wgWriter, chanClosed, now, wrPC, callsAt>>

\* ----------------------------------------------------------------- writer
\* mutant: the writer returns on the first error
AfterWriteErrorStops == "done"

\* where the writer goes after writeImportResult returned an error: the error
\* is logged and the loop goes on
AfterWriteError == "recv"

\* one iteration of "for result := range resultsChan": receive a result and
\* call writeImportResult(db, result).  The store is written by the writer
\* alone, so receive and write are one step.
WriterWrite ==
    /\ wrPC = "recv"
    /\ resultsChan # <<>>
    /\ LET result == Dequeue(resultsChan)[1]
       IN /\ wrCur' = result
          /\ resultsChan' = Dequeue(resultsChan)[2]
          /\ \E ok \in (IF storeFaults THEN BOOLEAN ELSE {TRUE}) :
               /\ attempts' = [attempts EXCEPT ![result.RepoID] = Append(@, ok)]
               /\ received' = [received EXCEPT ![result.RepoID] = Append(@, result)]
               /\ IF ok
                  THEN /\ store' = Upsert(store, result, nextId)
                       /\ nextId' = nextId + 1
                       /\ nConflicts' = nConflicts
                              + (IF Conflicts(store, result) # {} THEN 1 ELSE 0)
                       /\ wrPC' = "recv"
                  ELSE /\ UNCHANGED <<store, nextId, nConflicts>>
                       /\ wrPC' = AfterWriteError
    /\ UNCHANGED <<envVars, started, acquired,
                   runVars, cancelAsked, callsAfterCancel,
                   mainVars, limVars, workerVars, tableExists, wg,
                   wgWriter, chanClosed, now, wpc, subm, pushed, callsAt>>

\* the range loop ends when the channel is closed and drained (defer
\* wgWriter.Done)
WriterExit ==
    /\ wrPC = "recv"
    /\ resultsChan = <<>>
    /\ chanClosed
    /\ wrPC' = "done"
    /\ wgWriter' = wgWriter - 1
    /\ UNCHANGED <<envVars, received, started, acquired,
                   runVars, cancelAsked, callsAfterCancel,
                   mainVars, writerVars, limVars, workerVars,
                   tableExists, wg, resultsChan, chanClosed, now, wpc, subm,
                   pushed, callsAt>>

\* ------------------------------------------------------------------ clock
\* The program observes the clock only in the limiter and in time.Now() after
\* the HTTP call.  The clock advances while some goroutine sleeps in
\* limiter.Wait or is inside importToSnyk and no goroutine of the fan-out is
\* at a computation step: the launch loop has ended and every worker is
\* blocked or has returned.  A due reservation is resumed first, and a call
\* ends by the client timeout at the latest.
Computing(r) == wpc[r] \in {"idle", "query", "next"}

TimedWait(r) == wpc[r] \in {"wait", "import"}

Tick ==
    /\ now < clockEnd
    /\ mainPC # "launch"
    /\ \E r \in Workers : TimedWait(r)
    /\ \A r \in Workers :
         /\ ~Computing(r)
         /\ wpc[r] = "wait" => wact[r] > now
         /\ wpc[r] = "import" =>
                now < wstart[r] + clientTimeoutSeconds * TicksPerInterval
    /\ now' = now + 1
    /\ UNCHANGED <<envVars, received, started, acquired,
                   runVars, cancelAsked, callsAfterCancel,
                   mainVars, writerVars, limVars, workerVars,
                   tableExists, wg, wgWriter, resultsChan, chanClosed, wpc,
                   wrPC, subm, pushed, callsAt>>

Next ==
    \/ MainInitDB
    \/ MainCreds
    \/ MainGetRepos
    \/ MainLaunch
    \/ MainClose
    \/ MainWriterWait
    \/ \E r \in Workers : WorkerQuery(r)
    \/ \E r \in Workers : WorkerNext(r)
    \/ \E r \in Workers : WorkerStartImport(r)
    \/ \E r \in Workers : WorkerImportReturns(r)
    \/ WriterWrite
    \/ WriterExit
    \/ Tick

Spec == Init /\ [][Next]_vars

\* the startup specification: the table snyk_imports may or may not exist
\* before the run; one repository with one file
InitStartup ==
    /\ tableExisted \in BOOLEAN
    /\ repoTable = <<Repository(1, <<"acme", "api">>)>>
    /\ scanTable = [k \in Keys |-> IF k = <<"acme", "api">>
                                    THEN <<[path |-> "go.mod", ok |-> TRUE]>>
                                    ELSE <<>>]
    /\ apiAnswers = [p \in Paths |-> Responses]
    /\ storeFaults = TRUE
    /\ apiLatency = 0
    /\ clockEnd = 1
    /\ cancelPossible = FALSE
    /\ rerunPlanned = FALSE
    /\ chanCap = resultsChanCap
    /\ InitCommon

SpecStartup == InitStartup /\ [][Next]_vars

\* the gate specification: two repositories with GateFiles files each, more
\* files than the limiter's burst; an API that always answers 201, no store
\* faults
InitGate ==
    /\ tableExisted = FALSE
    /\ repoTable = [i \in 1..2 |-> Repository(i, IF i = 1 THEN <<"acme", "api">>
                                                          ELSE <<"acme", "web">>)]
    /\ scanTable = [k \in Keys |-> [i \in 1..GateFiles |-> [path |-> "go.mod", ok |-> TRUE]]]
    /\ apiAnswers = [p \in Paths |-> {[neterr |-> FALSE, status |-> StatusCreated]}]
    /\ storeFaults = FALSE
    /\ apiLatency = 0
    /\ clockEnd = MaxTime * TicksPerInterval
    /\ cancelPossible = FALSE
    /\ rerunPlanned = FALSE
    /\ chanCap = resultsChanCap
    /\ InitCommon

SpecGate == InitGate /\ [][Next]_vars

\* the burst specification: up to snykImportLimit + 1 repositories with one
\* file each, an API that answers 201 after one limiter interval or later, no
\* store faults, a clock of one limiter interval
InitBurst ==
    /\ tableExisted = FALSE
    /\ repoTable \in {[i \in 1..n |-> Repository(i, <<"acme", "api">>)] :
                        n \in 1..(snykImportLimit + 1)}
    /\ scanTable = [k \in Keys |-> IF k = <<"acme", "api">>
                                    THEN <<[path |-> "go.mod", ok |-> TRUE]>>
                                    ELSE <<>>]
    /\ apiAnswers = [p \in Paths |-> {[neterr |-> FALSE, status |-> StatusCreated]}]
    /\ storeFaults = FALSE
    /\ apiLatency = TicksPerInterval
    /\ clockEnd = TicksPerInterval
    /\ cancelPossible = FALSE
    /\ rerunPlanned = FALSE
    /\ chanCap = resultsChanCap
    /\ InitCommon

SpecBurst == InitBurst /\ [][Next]_vars

\* the shutdown specification: the gate specification's run on a clock of one
\* limiter interval, in which the process may be asked to shut down
InitCancel ==
    /\ tableExisted = FALSE
    /\ repoTable = [i \in 1..2 |-> Repository(i, IF i = 1 THEN <<"acme", "api">>
                                                          ELSE <<"acme", "web">>)]
    /\ scanTable = [k \in Keys |-> [i \in 1..GateFiles |-> [path |-> "go.mod", ok |-> TRUE]]]
    /\ apiAnswers = [p \in Paths |-> {[neterr |-> FALSE, status |-> StatusCreated]}]
    /\ storeFaults = FALSE
    /\ apiLatency = 0
    /\ clockEnd = TicksPerInterval
    /\ cancelPossible = TRUE
    /\ rerunPlanned = FALSE
    /\ chanCap = resultsChanCap
    /\ InitCommon

SpecCancel == InitCancel /\ [][Next]_vars

\* the end-to-end specification: one repository (id 1, acme/api, main) with
\* scan results go.mod and package.json; the API answers 201 for go.mod and
\* 500 for package.json; no store faults
InitEndToEnd ==
    /\ tableExisted \in BOOLEAN
    /\ repoTable = <<Repository(1, <<"acme", "api">>)>>
    /\ scanTable = [k \in Keys |-> IF k = <<"acme", "api">>
                                    THEN <<[path |-> "go.mod", ok |-> TRUE],
                                           [path |-> "package.json", ok |-> TRUE]>>
                                    ELSE <<>>]
    /\ apiAnswers = [p \in Paths |->
                        {[neterr |-> FALSE,
                          status |-> IF p = "go.mod" THEN StatusCreated
                                                     ELSE StatusServerError]}]
    /\ storeFaults = FALSE
    /\ apiLatency = 0
    /\ clockEnd = 1
    /\ cancelPossible = FALSE
    /\ rerunPlanned = FALSE
    /\ chanCap = resultsChanCap
    /\ InitCommon

SpecEndToEnd == InitEndToEnd /\ [][Next]_vars

\* the re-run specification: the program runs twice over the same inventory
\* and scan results, with an API whose answer depends on the file alone and
\* no store faults
InitRerun ==
    /\ tableExisted = FALSE
    /\ repoTable \in {inv \in Inventories : inv # <<>>}
    /\ scanTable = [k \in Keys |-> IF k \notin KeysOf(repoTable) THEN <<>>
                                    ELSE IF k = <<"acme", "api">>
                                    THEN <<[path |-> "go.mod", ok |-> TRUE],
                                           [path |-> "package.json", ok |-> TRUE]>>
                                    ELSE <<[path |-> "go.mod", ok |-> TRUE]>>]
    /\ apiAnswers = [p \in Paths |->
                        {[neterr |-> FALSE,
                          status |-> IF p = "go.mod" THEN StatusCreated
                                                     ELSE StatusServerError]}]
    /\ storeFaults = FALSE
    /\ apiLatency = 0
    /\ clockEnd = 2
    /\ cancelPossible = FALSE
    /\ rerunPlanned = TRUE
    /\ chanCap = resultsChanCap
    /\ InitCommon

SpecRerun == InitRerun /\ [][Next]_vars

\* the full-handoff specification: LiveRepos repositories with LiveFiles
\* candidate files each, every kind of API answer, store faults possible, and
\* a handoff scaled down to FullCap places, fewer than the outcomes produced;
\* the clock reaches the time at which the last token is due.  Some enabled
\* step is eventually taken: goroutines that can run are scheduled, calls and
\* store statements return, time passes.
InitLive ==
    /\ tableExisted = FALSE
    /\ repoTable = [i \in 1..LiveRepos |->
                       Repository(i, IF i = 1 THEN <<"acme", "api">>
                                              ELSE <<"acme", "web">>)]
    /\ scanTable = [k \in Keys |-> [i \in 1..LiveFiles |-> [path |-> "go.mod", ok |-> TRUE]]]
    /\ apiAnswers = [p \in Paths |-> Responses]
    /\ storeFaults = TRUE
    /\ apiLatency = 0
    /\ clockEnd = Max(1, (LiveRepos * LiveFiles - snykImportLimit) * TicksPerInterval)
    /\ cancelPossible = FALSE
    /\ rerunPlanned = FALSE
    /\ chanCap = FullCap
    /\ InitCommon

SpecLive == InitLive /\ [][Next]_vars /\ WF_vars(Next)


\* =================================================================== claims
RunEnded == mainPC = "done"

RECURSIVE SumOver(_, _)
SumOver(f, S) == IF S = {} THEN 0
                 ELSE LET x == CHOOSE y \in S : TRUE
                      IN f[x] + SumOver(f, S \ {x})

\* the candidate files the scan results hold for worker r's repository: the
\* rows that decode into a (path, type) pair
CandidateFiles(r) ==
    LET rows == scanTable[RepoKey(repoTable[r])]
    IN Cardinality({i \in 1..Len(rows) : rows[i].ok})

QueryFailed(r) == wpc[r] = "queryFailed"

\* the candidate files worker r's query delivered
FilesRead(r) == IF QueryFailed(r) THEN 0 ELSE CandidateFiles(r)

TotalFiles == SumOver([r \in Workers |-> CandidateFiles(r)], Workers)
TotalRead == SumOver([r \in Workers |-> FilesRead(r)], Workers)
TotalPushed == SumOver(pushed, Workers)
TotalAttempts == SumOver([r \in Workers |-> Len(attempts[r])], Workers)

C2_EndOnlyAfterDrain ==
    RunEnded =>
        /\ chanClosed
        /\ resultsChan = <<>>
        /\ wrPC = "done"
        /\ \A r \in Workers : Len(attempts[r]) = pushed[r]

\* a run that ended after three outcomes went through the handoff
C2_Witness == RunEnded /\ TotalPushed >= 3 /\ TotalAttempts >= 3

\* the writer's latest writeImportResult call succeeded
LastWriteOK ==
    /\ wrCur # NoResult
    /\ attempts[wrCur.RepoID] # <<>>
    /\ attempts[wrCur.RepoID][Len(attempts[wrCur.RepoID])]

\* C3: the store never holds two rows with the same (owner, name, file path),
\* and after a successful upsert the one row of the outcome's key carries
\* that outcome's success, error_message and imported_at.
C3_IdempotentUpsert ==
    /\ \A r1 \in store, r2 \in store : RowKey(r1) = RowKey(r2) => r1 = r2
    /\ LastWriteOK =>
          /\ Cardinality(Conflicts(store, wrCur)) = 1
          /\ \A row \in Conflicts(store, wrCur) :
                /\ row.success = wrCur.Success
                /\ row.error_message = wrCur.Error
                /\ row.imported_at = wrCur.ImportedAt

\* a second outcome of a key was persisted after a first one that differed in
\* success and completion time
C3_Witness ==
    /\ LastWriteOK
    /\ nConflicts >= 1
    /\ Cardinality(store) = 1
    /\ \E r \in Workers : \E i \in 1..Len(attempts[r]) :
          /\ attempts[r][i]
          /\ i <= Len(subm[r])
          /\ ResultKey(subm[r][i]) = ResultKey(wrCur)
          /\ subm[r][i].Success # wrCur.Success
          /\ subm[r][i].ImportedAt < wrCur.ImportedAt

\* number of importToSnyk calls started at the ticks a..b
CallsIn(a, b) == SumOver(callsAt, a..b)

\* ceil(w / interval), w in ticks
CeilIntervals(w) == (w + TicksPerInterval - 1) \div TicksPerInterval

\* C4: over every window of ticks a..b, the number of importToSnyk calls
\* started by all workers together is at most ceil((b - a) / interval) + burst.
C4_AggregateRateBound ==
    \A a \in 0..clockEnd : \A b \in a..clockEnd :
        CallsIn(a, b) <= CeilIntervals(b - a) + snykImportLimit

\* both workers called the API, more calls than the burst were started, and a
\* window of at least one interval is filled to the bound
C4_Witness ==
    /\ \A r \in Workers : Len(subm[r]) >= 1
    /\ CallsIn(0, clockEnd) > snykImportLimit
    /\ \E a \in 0..clockEnd : \E b \in a..clockEnd :
          /\ b - a >= TicksPerInterval
          /\ CallsIn(a, b) = CeilIntervals(b - a) + snykImportLimit

\* the importToSnyk calls that have started and not returned
InFlight == {r \in Workers : wpc[r] = "import"}

\* C5: never more than snykImportLimit importToSnyk calls are in flight.
C5_BurstBoundsInFlight == Cardinality(InFlight) <= snykImportLimit

\* C6: a worker whose scan-results query failed emits nothing and calls
\* nothing, no goroutine panics, and when the run has ended every other worker
\* whose query succeeded has submitted each of its candidate files, pushed each
\* outcome and had it passed to writeImportResult, a successful write leaving
\* a row under the outcome's key.
C6_FailureIsolation ==
    /\ \A r \in Workers : wpc[r] # "panic"
    /\ \A a \in Workers :
          QueryFailed(a) =>
              subm[a] = <<>> /\ pushed[a] = 0 /\ attempts[a] = <<>> /\ widx[a] = 0
    /\ RunEnded =>
          \A a \in Workers : \A b \in Workers \ {a} :
              (QueryFailed(a) /\ ~QueryFailed(b)) =>
                  /\ Len(subm[b]) = CandidateFiles(b)
                  /\ pushed[b] = CandidateFiles(b)
                  /\ Len(attempts[b]) = CandidateFiles(b)
                  /\ \A i \in 1..Len(attempts[b]) :
                        attempts[b][i] =>
                            \E row \in store : RowKey(row) = ResultKey(subm[b][i])

\* a run that ended with the first worker's query failed on a repository with
\* two candidate files while the second worker's two outcomes were persisted
C6_Witness ==
    /\ RunEnded
    /\ Len(repoTable) = 2
    /\ QueryFailed(1) /\ CandidateFiles(1) = 2
    /\ attempts[2] = <<TRUE, TRUE>>
    /\ store # {}

\* the error texts importToSnyk can return
ErrorTexts == {ImportToSnykErr(resp) : resp \in Responses} \ {""}

\* the candidate files among the first n rows of worker r's result set
OkRows(r, n) == Cardinality({i \in 1..n : wrows[r][i].ok})

\* C7: every outcome of a failed call has succeeded = false and the error text
\* as error message and is pushed like any other; a worker's submissions keep
\* pace with the rows it has consumed whatever the earlier calls returned, and
\* a worker ends its loop only when every candidate file has been submitted.
C7_FailedSubmissionRecorded ==
    \A r \in Workers :
        /\ \A i \in 1..Len(subm[r]) :
              /\ subm[r][i].Success <=> subm[r][i].Error = ""
              /\ ~subm[r][i].Success => subm[r][i].Error \in ErrorTexts
        /\ pushed[r] = Len(subm[r])
        /\ wpc[r] \in {"next", "done"} => Len(subm[r]) = OkRows(r, widx[r])
        /\ wpc[r] \in {"wait", "import"} => Len(subm[r]) + 1 = OkRows(r, widx[r])
        /\ wpc[r] = "done" => Len(subm[r]) = CandidateFiles(r)

\* a run that ended after a worker's first call failed with status 500 and its
\* second file was submitted all the same, as was another repository's file
C7_Witness ==
    /\ RunEnded
    /\ \E r \in Workers :
          /\ Len(subm[r]) = 2 /\ pushed[r] = 2
          /\ ~subm[r][1].Success
          /\ subm[r][1].Error = "Snyk API returned status: 500"
          /\ \E q \in Workers \ {r} : Len(subm[q]) >= 1

\* the successful writeImportResult calls for worker r's outcomes
WrittenBy(r) == {i \in 1..Min(Len(attempts[r]), Len(subm[r])) : attempts[r][i]}

\* the persisted outcomes of key k, as (worker, position) pairs
PersistedFor(k) ==
    {<<r, i>> : r \in Workers, i \in 1..MaxFiles} \cap
    {p \in Workers \X (1..MaxFiles) :
        p[2] \in WrittenBy(p[1]) /\ ResultKey(subm[p[1]][p[2]]) = k}

\* the last of them when the workers run one after the other in inventory order
LastInInventoryOrder(k) ==
    CHOOSE p \in PersistedFor(k) :
        \A q \in PersistedFor(k) : q[1] < p[1] \/ (q[1] = p[1] /\ q[2] <= p[2])

\* the final rows are those of the run in which the workers run one after the
\* other: with the inputs fixed, the result of every interleaving
SameAsSequentialRun ==
    \A row \in store :
        /\ PersistedFor(RowKey(row)) # {}
        /\ LET p == LastInInventoryOrder(RowKey(row))
           IN /\ row.success = subm[p[1]][p[2]].Success
              /\ row.error_message = subm[p[1]][p[2]].Error

\* C8: for a fixed inventory, fixed scan results and fixed API responses, every
\* interleaving of the workers and the writer ends with the same success and
\* error_message for every key: those of the run in which the workers run
\* one after the other.
C8_OrderIndependent == RunEnded => SameAsSequentialRun

\* a step in which writeImportResult returned an error
FailedWriteStep ==
    \E r \in Workers :
        /\ Len(attempts'[r]) = Len(attempts[r]) + 1
        /\ ~attempts'[r][Len(attempts'[r])]

\* C9: the writer leaves its loop only on a closed and drained handoff, so not
\* on a write error; no outcome is attempted more often than it was pushed,
\* and when the run has ended every pushed outcome was attempted once; a
\* failed writeImportResult call leaves the store as it was.
C9_WriterSurvivesWriteError ==
    /\ [](/\ wrPC \in {"idle", "recv", "done"}
          /\ wrPC = "done" => chanClosed /\ resultsChan = <<>>
          /\ \A r \in Workers : Len(attempts[r]) <= pushed[r]
          /\ RunEnded => \A r \in Workers : Len(attempts[r]) = pushed[r])
    /\ [][FailedWriteStep => (store' = store /\ nextId' = nextId /\ wrPC' = "recv")]_vars

\* a run that ended after a failed write was followed by a successful one
C9_Witness ==
    /\ RunEnded
    /\ \E r \in Workers : attempts[r] = <<FALSE, TRUE>>
    /\ Cardinality(store) = 1

\* C10: when main returned at the credential check, nothing was launched or
\* called and the store, the existence of its table included, is as it was
\* before the run.
C10_MissingCredentialsNoSideEffects ==
    abortedAt = "creds" =>
        /\ tableExists = tableExisted
        /\ store = {}
        /\ wrPC = "idle"
        /\ \A r \in Workers : wpc[r] = "idle"
        /\ \A t \in 0..clockEnd : callsAt[t] = 0

\* C11: once the process has been asked to shut down, no worker starts a
\* further importToSnyk call: the waits in limiter.Wait end with an error.
C11_CancelStopsCalls == cancelAsked => callsAfterCancel = 0

\* SQL NULL: a column value that is no text, the empty text included
SqlNull == "<NULL>"

\* the key, success and error_message columns of the rows of the store
StoreView ==
    {<<row.repo_owner, row.repo_name, row.file_path, row.success,
       row.error_message>> : row \in store}

\* C12: the end-to-end run ends with exactly two rows: (acme, api, go.mod)
\* with success = true and error_message NULL, and (acme, api, package.json)
\* with success = false and the error message of status 500.
C12_EndToEndStore ==
    RunEnded =>
        StoreView = {<<"acme", "api", "go.mod", TRUE, SqlNull>>,
                     <<"acme", "api", "package.json", FALSE,
                       "Snyk API returned status: 500">>}

\* the second run has ended
SecondRunEnded == rerunPlanned /\ runsLeft = 0 /\ RunEnded

\* the columns of the rows other than imported_at
WithoutImportedAt(rows) ==
    {[id |-> row.id, repo_id |-> row.repo_id, repo_owner |-> row.repo_owner,
      repo_name |-> row.repo_name, file_path |-> row.file_path,
      success |-> row.success, error_message |-> row.error_message] :
        row \in rows}

\* C13 as stated: after the second run the store holds the same rows as after
\* the first, the value of every column unchanged.
C13_RerunSameRows == SecondRunEnded => store = storeAfterFirst

\* C13 amended: after the second run the store holds one row per key of the
\* first run and no other, with id, repo_id, success and error_message
\* unchanged; imported_at is the completion time of the second run's call
\* and so not earlier than the first run's.
C13_RerunConverges ==
    SecondRunEnded =>
        /\ WithoutImportedAt(store) = WithoutImportedAt(storeAfterFirst)
        /\ Cardinality(store) = Cardinality(storeAfterFirst)
        /\ \A row \in store : \E old \in storeAfterFirst :
              /\ RowKey(old) = RowKey(row)
              /\ old.imported_at <= row.imported_at
              /\ \E r \in Workers : \E i \in 1..Len(subm[r]) :
                    /\ ResultKey(subm[r][i]) = RowKey(row)
                    /\ subm[r][i].ImportedAt = row.imported_at

\* the second run ended having overwritten three rows of the first, one of
\* them failed, with a later completion time
C13_Witness ==
    /\ SecondRunEnded
    /\ Cardinality(storeAfterFirst) = 3
    /\ nConflicts = 3
    /\ \E row \in store : ~row.success
    /\ store # storeAfterFirst

\* C14: when initDB, the credential check or getRepositoriesFromDB has failed,
\* main has returned, no worker and no writer goroutine has been started, no
\* importToSnyk call has been made, nothing has been sent and no row written.
C14_StartupErrorAborts ==
    abortedAt # "none" =>
        /\ mainPC = "aborted"
        /\ launched = 0 /\ wg = 0 /\ wgWriter = 0
        /\ \A r \in Workers : wpc[r] = "idle" /\ subm[r] = <<>> /\ attempts[r] = <<>>
        /\ wrPC = "idle"
        /\ \A t \in 0..clockEnd : callsAt[t] = 0
        /\ resultsChan = <<>>
        /\ store = {}

\* the inventory query failed on a database that holds two repositories with
\* candidate files
C14_Witness ==
    /\ abortedAt = "getRepos"
    /\ Len(repoTable) = 2
    /\ \A r \in Workers : CandidateFiles(r) > 0

\* C15: the handoff is closed only by main after wg.Wait, when the launch loop
\* has ended and every worker has returned; no worker finds the handoff closed
\* at its send; the writer has left its loop only on a closed, empty handoff.
C15_CloseAfterWorkers ==
    /\ chanClosed <=> mainPC \in {"writerWait", "done"}
    /\ chanClosed =>
          /\ wg = 0
          /\ launched = Len(repos)
          /\ \A r \in Workers : wpc[r] \in {"done", "queryFailed"}
    /\ \A r \in Workers : wpc[r] # "panic"
    /\ wg = Cardinality({r \in Workers : wpc[r] \in {"query", "next", "wait", "import"}})
    /\ wrPC = "done" => chanClosed /\ resultsChan = <<>>

\* the handoff was closed while outcomes of both workers were still buffered
C15_Witness ==
    /\ chanClosed
    /\ wrPC = "recv"
    /\ Len(resultsChan) >= 3
    /\ \A r \in Workers : pushed[r] >= 1

\* the outcomes of worker r on the handoff, oldest first
OnHandoff(r) == SelectSeq(resultsChan, LAMBDA o : o.RepoID = r)

\* C16: for every worker, the outcomes the writer has taken followed by the
\* worker's outcomes still on the handoff are the worker's outcomes in the
\* order it built them; the writer has passed each outcome it took to
\* writeImportResult before taking the next, the latest being its current one.
C16_PerWorkerOrder ==
    /\ \A r \in Workers :
          /\ received[r] \o OnHandoff(r) = subm[r]
          /\ Len(attempts[r]) = Len(received[r])
    /\ wrCur # NoResult =>
          received[wrCur.RepoID][Len(received[wrCur.RepoID])] = wrCur

\* a run that ended after the writer took a worker's failed and successful
\* outcome in the order built, and an outcome of the other worker
C16_Witness ==
    /\ RunEnded
    /\ \E r \in Workers :
          /\ Len(received[r]) = 2
          /\ ~received[r][1].Success /\ received[r][2].Success
          /\ \E q \in Workers \ {r} : received[q] # <<>>

\* C17: a worker has started at most one call more than it has pushed
\* outcomes, and exactly one more while it is inside importToSnyk: it has one
\* call outstanding at most, and when it takes the token for its next file
\* the outcome of every earlier file has been pushed.
C17_OneCallPerWorker ==
    \A r \in Workers :
        /\ started[r] = pushed[r] + (IF wpc[r] = "import" THEN 1 ELSE 0)
        /\ acquired[r] = pushed[r] + (IF wpc[r] \in {"wait", "import"} THEN 1 ELSE 0)

\* both workers are inside a call, one of them for its second file
C17_Witness ==
    /\ Len(repoTable) = 2
    /\ \A r \in Workers : wpc[r] = "import"
    /\ \E r \in Workers : started[r] = 2 /\ pushed[r] = 1

TotalStarted == SumOver(started, Workers)

UpsertOnExistingKey ==
    /\ store' # store \/ nextId' # nextId
    /\ \E row \in store : RowKey(row) = ResultKey(wrCur')

\* C20: every row keeps its key, id and repo_id in every step; a row of
\* another key than the outcome written is left as it was; an upsert on an
\* existing key adds no row and sets the row's success, error_message and
\* imported_at to the outcome's.
C20_UpsertFrame ==
    [][/\ \A row \in store : \E new \in store' :
             /\ RowKey(new) = RowKey(row)
             /\ new.id = row.id
             /\ new.repo_id = row.repo_id
             /\ RowKey(row) # ResultKey(wrCur') => new = row
       /\ UpsertOnExistingKey =>
             /\ Cardinality(store') = Cardinality(store)
             /\ \A new \in store' :
                   RowKey(new) = ResultKey(wrCur') =>
                       /\ new.success = wrCur'.Success
                       /\ new.error_message = wrCur'.Error
                       /\ new.imported_at = wrCur'.ImportedAt]_vars

\* the row of a key was written by repository 1 and overwritten with a failed
\* outcome of repository 2: it keeps repo_id 1
C20_Witness ==
    /\ LastWriteOK
    /\ nConflicts >= 1
    /\ wrCur.RepoID = 2
    /\ ~wrCur.Success
    /\ \E row \in store : /\ RowKey(row) = ResultKey(wrCur)
                          /\ row.repo_id = 1
                          /\ ~row.success

\* worker r has a result to send and the handoff is full
BlockedOnFullHandoff(r) ==
    /\ r \in Workers
    /\ wpc[r] = "import"
    /\ Len(resultsChan) >= chanCap

\* C19: every run reaches the end of main (or its return at a startup
\* error), and a worker blocked on the full handoff gets to send.
C19_Terminates ==
    /\ <>(mainPC \in {"done", "aborted"})
    /\ \A r \in 1..LiveRepos : BlockedOnFullHandoff(r) ~> ~BlockedOnFullHandoff(r)

\* both workers hold a result for the full handoff before the writer has
\* been started
C19_Witness ==
    /\ wrPC = "idle"
    /\ chanCap < LiveRepos * LiveFiles
    /\ \A r \in Workers : BlockedOnFullHandoff(r)

====
